---------------------------- MODULE Spec2Model ----------------------------
(***************************************************************************)
(* HelpSignal backend (scripts/main.py): the batch driver main, the        *)
(* per-article pipeline process_event, the five enrichment operations,     *)
(* the two storage sinks and the optional tweet.                           *)
(*                                                                         *)
(* Python strings are modelled as sequences of one-character strings, so   *)
(* that lower(), strip(), split(), the "in" substring test, slicing and    *)
(* digit filtering are computed the way the code computes them.  Three     *)
(* code points outside ASCII are written as tokens: "U+1F6A8" (the siren   *)
(* emoji of the tweet), "U+00B2" (superscript two: str.isdigit() is true   *)
(* but int() rejects it) and "U+D800" (a lone surrogate, which             *)
(* urllib.parse.quote cannot encode).                                      *)
(***************************************************************************)
EXTENDS Integers, Sequences, FiniteSets, TLC

(***************************************************************************)
(* Python str primitives                                                   *)
(***************************************************************************)
UpperLetters == <<"A","B","C","D","E","F","G","H","I","J","K","L","M",
                  "N","O","P","Q","R","S","T","U","V","W","X","Y","Z">>

LowerLetters == <<"a","b","c","d","e","f","g","h","i","j","k","l","m",
                  "n","o","p","q","r","s","t","u","v","w","x","y","z">>

\* str.lower() on one character
LowerChar(c) ==
    IF \E i \in 1..26 : UpperLetters[i] = c
    THEN LowerLetters[CHOOSE i \in 1..26 : UpperLetters[i] = c]
    ELSE c

\* str.upper() on one character
UpperChar(c) ==
    IF \E i \in 1..26 : LowerLetters[i] = c
    THEN UpperLetters[CHOOSE i \in 1..26 : LowerLetters[i] = c]
    ELSE c

PyLower(s) == [i \in 1..Len(s) |-> LowerChar(s[i])]

PyUpper(s) == [i \in 1..Len(s) |-> UpperChar(s[i])]

\* characters str.strip() removes
IsSpace(c) == c \in {" ", "\n", "\t", "\r"}

\* str.strip(): drop leading and trailing whitespace
PyStrip(s) ==
    LET keep == {i \in 1..Len(s) : ~IsSpace(s[i])}
    IN  IF keep = {} THEN <<>>
        ELSE LET lo == CHOOSE i \in keep : \A j \in keep : i <= j
                 hi == CHOOSE i \in keep : \A j \in keep : j <= i
             IN  SubSeq(s, lo, hi)

\* k in s (substring test)
PyIn(k, s) ==
    \E i \in 0..(Len(s) - Len(k)) : SubSeq(s, i + 1, i + Len(k)) = k

\* s.startswith(p)
PyStartsWith(s, p) ==
    Len(p) <= Len(s) /\ SubSeq(s, 1, Len(p)) = p

\* s[:n]
PyPrefix(s, n) == SubSeq(s, 1, IF Len(s) < n THEN Len(s) ELSE n)

\* s.replace(a, b) for single characters a, b
PyReplaceChar(s, a, b) == [i \in 1..Len(s) |-> IF s[i] = a THEN b ELSE s[i]]

\* s.split(sep) for a single-character separator: always at least one piece
RECURSIVE PySplit(_, _)
PySplit(s, sep) ==
    IF \A i \in 1..Len(s) : s[i] # sep THEN <<s>>
    ELSE LET p == CHOOSE i \in 1..Len(s) :
                      s[i] = sep /\ \A j \in 1..(i - 1) : s[j] # sep
         IN  <<SubSeq(s, 1, p - 1)>> \o PySplit(SubSeq(s, p + 1, Len(s)), sep)

\* s.split(sep, 1) when sep occurs in s: the text before and after the first sep
PySplitOnce(s, sep) ==
    LET p == CHOOSE i \in 1..Len(s) :
                 s[i] = sep /\ \A j \in 1..(i - 1) : s[j] # sep
    IN  <<SubSeq(s, 1, p - 1), SubSeq(s, p + 1, Len(s))>>

DecimalDigits == <<"0","1","2","3","4","5","6","7","8","9">>

IsDecimal(c) == \E i \in 1..10 : DecimalDigits[i] = c

\* str.isdigit(): the decimal digits and other digit code points such as U+00B2
PyIsDigit(c) == IsDecimal(c) \/ c = "U+00B2"

\* filter(str.isdigit, s)
PyFilterDigits(s) == SelectSeq(s, PyIsDigit)

DigitValue(c) == (CHOOSE i \in 1..10 : DecimalDigits[i] = c) - 1

RECURSIVE DecimalValue(_)
DecimalValue(s) ==
    IF s = <<>> THEN 0
    ELSE 10 * DecimalValue(SubSeq(s, 1, Len(s) - 1)) + DigitValue(s[Len(s)])

\* int(s) raises ValueError for "" and for a string with a non-decimal digit
IntRaises(s) == s = <<>> \/ \E i \in 1..Len(s) : ~IsDecimal(s[i])

\* str(n) for a natural number
RECURSIVE PyStr(_)
PyStr(n) ==
    IF n < 10 THEN <<DecimalDigits[n + 1]>>
    ELSE PyStr(n \div 10) \o <<DecimalDigits[(n % 10) + 1]>>

\* json.dumps of a str: quoted, with the quote and the backslash escaped
RECURSIVE JsonEscape(_)
JsonEscape(s) ==
    IF s = <<>> THEN <<>>
    ELSE (IF s[1] \in {"\"", "\\"} THEN <<"\\", s[1]>> ELSE <<s[1]>>)
         \o JsonEscape(Tail(s))

JsonStr(s) == <<"\"">> \o JsonEscape(s) \o <<"\"">>

\* json.dumps of a list of str: [ "a", "b" ] with ", " between the items
RECURSIVE JsonItems(_)
JsonItems(l) ==
    IF l = <<>> THEN <<>>
    ELSE IF Len(l) = 1 THEN JsonStr(l[1])
    ELSE JsonStr(l[1]) \o <<",", " ">> \o JsonItems(Tail(l))

JsonDumpsList(l) == <<"[">> \o JsonItems(l) \o <<"]">>

(***************************************************************************)
(* String constants of the program                                         *)
(***************************************************************************)
KW_war == <<"w", "a", "r">>

KW_conflict == <<"c", "o", "n", "f", "l", "i", "c", "t">>

KW_battle == <<"b", "a", "t", "t", "l", "e">>

KW_famine == <<"f", "a", "m", "i", "n", "e">>

KW_hunger == <<"h", "u", "n", "g", "e", "r">>

KW_starvation == <<"s", "t", "a", "r", "v", "a", "t", "i", "o", "n">>

KW_flood == <<"f", "l", "o", "o", "d">>

KW_storm == <<"s", "t", "o", "r", "m">>

KW_hurricane == <<"h", "u", "r", "r", "i", "c", "a", "n", "e">>

KW_typhoon == <<"t", "y", "p", "h", "o", "o", "n">>

KW_earthquake == <<"e", "a", "r", "t", "h", "q", "u", "a", "k", "e">>

KW_quake == <<"q", "u", "a", "k", "e">>

KW_drought == <<"d", "r", "o", "u", "g", "h", "t">>

War == <<"W", "a", "r">>

Famine == <<"F", "a", "m", "i", "n", "e">>

Flood == <<"F", "l", "o", "o", "d">>

Earthquake == <<"E", "a", "r", "t", "h", "q", "u", "a", "k", "e">>

Drought == <<"D", "r", "o", "u", "g", "h", "t">>

Other == <<"O", "t", "h", "e", "r">>

S_CRISIS == <<"C", "R", "I", "S", "I", "S">>

S_people == <<"p", "e", "o", "p", "l", "e">>

S_severity == <<"s", "e", "v", "e", "r", "i", "t", "y">>

Unknown == <<"U", "n", "k", "n", "o", "w", "n">>

DirectRelief == <<"h", "t", "t", "p", "s", ":", "/", "/", "w", "w", "w", ".", "d", "i", "r", "e", "c", "t", "r", "e", "l", "i", "e", "f", ".", "o", "r", "g", "/">>

Unhcr == <<"h", "t", "t", "p", "s", ":", "/", "/", "w", "w", "w", ".", "u", "n", "h", "c", "r", ".", "o", "r", "g", "/">>

(***************************************************************************)
(* infer_event_type: keyword heuristic over the lower-cased text           *)
(***************************************************************************)
WarKeywords == {KW_war, KW_conflict, KW_battle}

FamineKeywords == {KW_famine, KW_hunger, KW_starvation}

FloodKeywords == {KW_flood, KW_storm, KW_hurricane, KW_typhoon}

EarthquakeKeywords == {KW_earthquake, KW_quake}

DroughtKeywords == {KW_drought}

\* any(k in lower for k in keywords)
AnyIn(keywords, lower) == \E k \in keywords : PyIn(k, lower)

\* a slip in the order of the tests: Flood is tested before War
infer_event_type_flood_first(text) ==
    LET lower == PyLower(text)
    IN  IF AnyIn(FloodKeywords, lower) THEN Flood
        ELSE IF AnyIn(WarKeywords, lower) THEN War
        ELSE IF AnyIn(FamineKeywords, lower) THEN Famine
        ELSE IF AnyIn(EarthquakeKeywords, lower) THEN Earthquake
        ELSE IF AnyIn(DroughtKeywords, lower) THEN Drought
        ELSE Other

infer_event_type(text) ==
    LET lower == PyLower(text)
    IN  IF AnyIn(WarKeywords, lower) THEN War
        ELSE IF AnyIn(FamineKeywords, lower) THEN Famine
        ELSE IF AnyIn(FloodKeywords, lower) THEN Flood
        ELSE IF AnyIn(EarthquakeKeywords, lower) THEN Earthquake
        ELSE IF AnyIn(DroughtKeywords, lower) THEN Drought
        ELSE Other

(***************************************************************************)
(* The completion collaborator (openai.ChatCompletion.create) answers with *)
(* a record: kind "ok" carries the message content; "raise" is an API or   *)
(* transport error, "timeout" a timed-out request, "malformed" a payload   *)
(* without choices[0].message["content"] as a string, so that reading it   *)
(* raises inside the try block.                                            *)
(***************************************************************************)
FailureKinds == {"raise", "timeout", "malformed"}

Failed(kind) == [kind |-> kind, content |-> <<>>]

Answer(content) == [kind |-> "ok", content |-> content]

\* a slip: a failed classification call lets the article through
classify_crisis_fail_open(key, resp) ==
    IF ~key THEN "NOT CRISIS"
    ELSE IF resp.kind # "ok" THEN "CRISIS"
    ELSE IF PyIn(S_CRISIS, PyUpper(PyStrip(resp.content)))
         THEN "CRISIS" ELSE "NOT CRISIS"

\* classify_crisis(text): key is whether OPENAI_API_KEY is set
classify_crisis(key, resp) ==
    IF ~key THEN "NOT CRISIS"
    ELSE IF resp.kind # "ok" THEN "NOT CRISIS"
    ELSE IF PyIn(S_CRISIS, PyUpper(PyStrip(resp.content)))
         THEN "CRISIS" ELSE "NOT CRISIS"

\* int("".join(filter(str.isdigit, value))), 0 on ValueError
DigitsOrZero(value) ==
    LET digits == PyFilterDigits(value)
    IN  IF IntRaises(digits) THEN 0 ELSE DecimalValue(digits)

\* the loop body of estimate_impact on one line; acc is <<people, severity>>
ImpactLine(acc, line) ==
    IF ~PyIn(<<":">>, line) THEN acc
    ELSE LET kv == PySplitOnce(line, ":")
             key == PyStrip(PyLower(kv[1]))
         IN  IF PyStartsWith(key, S_people)
             THEN <<DigitsOrZero(kv[2]), acc[2]>>
             ELSE IF PyStartsWith(key, S_severity)
             THEN <<acc[1], DigitsOrZero(kv[2])>>
             ELSE acc

RECURSIVE ImpactLines(_, _)
ImpactLines(acc, lines) ==
    IF lines = <<>> THEN acc
    ELSE ImpactLines(ImpactLine(acc, lines[1]), Tail(lines))

\* estimate_impact(text): <<people_affected, severity_score>>
estimate_impact(key, resp) ==
    IF ~key THEN <<0, 0>>
    ELSE IF resp.kind # "ok" THEN <<0, 0>>
    ELSE ImpactLines(<<0, 0>>, PySplit(PyStrip(resp.content), "\n"))

\* generate_summary(text)
generate_summary(key, resp) ==
    IF ~key THEN <<>>
    ELSE IF resp.kind # "ok" THEN <<>>
    ELSE PyStrip(resp.content)

DefaultDonations == <<DirectRelief, Unhcr>>

RECURSIVE StripAll(_)
StripAll(items) ==
    IF items = <<>> THEN <<>>
    ELSE <<PyStrip(items[1])>> \o StripAll(Tail(items))

NonEmpty(s) == s # <<>>

\* a slip: the comprehension without its condition keeps the empty fragments
DonationFragmentsKeepEmpty(content) ==
    StripAll(PySplit(PyReplaceChar(content, "\n", ","), ","))

\* [item.strip() for item in content.replace("\n", ",").split(",") if item.strip()]
DonationFragments(content) ==
    SelectSeq(StripAll(PySplit(PyReplaceChar(content, "\n", ","), ",")), NonEmpty)

\* suggest_donations(event_type)
suggest_donations(key, resp) ==
    IF ~key THEN DefaultDonations
    ELSE IF resp.kind # "ok" THEN DefaultDonations
    ELSE LET links == DonationFragments(PyStrip(resp.content))
         IN  SubSeq(links, 1, IF Len(links) < 3 THEN Len(links) ELSE 3)

(***************************************************************************)
(* geocode: the OpenCage lookup.  The collaborator's reply is a record:    *)
(* kinds "raise", "timeout", "non2xx" (raise_for_status raises) and        *)
(* "notjson" (response.json() raises) fail before the payload is read;     *)
(* kind "json" carries the decoded payload in data: results is the list    *)
(* under "results", each entry a dict that may lack "geometry"; a          *)
(* geometry is a dict from a subset of {"lat", "lng"} to coordinates.      *)
(* Coordinates are counted in tenths of a degree, so 0 stands for 0.0.     *)
(***************************************************************************)
GeoTransportFailures == {"raise", "timeout", "non2xx", "notjson"}

GeoFailed(kind) == [kind |-> kind, data |-> [results |-> <<>>]]

GeoJson(results) == [kind |-> "json", data |-> [results |-> results]]

\* d.get(k, default) on a dict modelled as a function
DictGet(d, k, default) == IF k \in DOMAIN d THEN d[k] ELSE default

\* requests.utils.quote(location) raises UnicodeEncodeError on a lone surrogate
QuoteRaises(location) == \E i \in 1..Len(location) : location[i] = "U+D800"

\* the guard of line 533: no key or an empty location skips the lookup
GeocodeSkipped(key, location) == ~key \/ location = <<>>

\* the try block of geocode, lines 541-556
GeocodeLookup(resp) ==
    IF resp.kind \in GeoTransportFailures THEN <<0, 0>>
    ELSE IF resp.data.results = <<>> THEN <<0, 0>>
    ELSE IF "geometry" \notin DOMAIN resp.data.results[1] THEN <<0, 0>>
    ELSE LET geometry == resp.data.results[1]["geometry"]
         IN  <<DictGet(geometry, "lat", 0), DictGet(geometry, "lng", 0)>>

\* the replies that end in geocode's except branch: a transport failure, or
\* a first result without "geometry" (KeyError)
GeoExcepted(resp) ==
    \/ resp.kind \in GeoTransportFailures
    \/ /\ resp.data.results # <<>>
       /\ "geometry" \notin DOMAIN resp.data.results[1]

\* geocode(location) when the URL could be built
geocode(key, location, resp) ==
    IF GeocodeSkipped(key, location) THEN <<0, 0>> ELSE GeocodeLookup(resp)

(***************************************************************************)
(* Dates, identifiers and keys                                             *)
(***************************************************************************)
\* the UTC calendar days datetime.now(timezone.utc) can fall on during a run
Dates == <<[Y |-> 2024, m |-> 12, d |-> 31], [Y |-> 2025, m |-> 1, d |-> 1]>>

\* {now:%m} and {now:%d}: two digits, zero padded
Pad2(n) == IF n < 10 THEN <<"0">> \o PyStr(n) ELSE PyStr(n)

S_events == <<"e", "v", "e", "n", "t", "s", "/">>

S_json == <<".", "j", "s", "o", "n">>

S_uuid == <<"u", "u", "i", "d", "-">>

S_midnight == <<"T", "0", "0", ":", "0", "0", ":", "0", "0", "+", "0", "0", ":", "0", "0">>

\* str(uuid.uuid4()): the n-th identifier drawn in this run.  uuid4 draws 122
\* random bits; two draws of one run are taken to differ.
Uuid4(n) == S_uuid \o PyStr(n)

\* datetime.isoformat() of a UTC instant of day date (time of day not modelled)
IsoFormat(date) ==
    PyStr(date.Y) \o <<"-">> \o Pad2(date.m) \o <<"-">> \o Pad2(date.d) \o S_midnight

\* f"events/{now:%Y}/{now:%m}/{now:%d}/{event_id}.json"
ObjectKey(now, event_id) ==
    S_events \o PyStr(now.Y) \o <<"/">> \o Pad2(now.m) \o <<"/">>
             \o Pad2(now.d) \o <<"/">> \o event_id \o S_json

(***************************************************************************)
(* Inputs: articles, configurations and collaborator answers               *)
(***************************************************************************)
\* "Flood in Jakarta"
T_Flood == <<"F", "l", "o", "o", "d", " ", "i", "n", " ", "J", "a", "k", "a", "r", "t", "a">>

\* "War looms"
T_WarLooms == <<"W", "a", "r", " ", "l", "o", "o", "m", "s">>

\* "Quake"
T_Quake == <<"Q", "u", "a", "k", "e">>

\* "Aid convoy"
T_Aid == <<"A", "i", "d", " ", "c", "o", "n", "v", "o", "y">>

\* "Jakarta"
Jakarta == <<"J", "a", "k", "a", "r", "t", "a">>

\* "https://n.example/flood"
U_flood == <<"h", "t", "t", "p", "s", ":", "/", "/", "n", ".", "e", "x", "a", "m", "p", "l", "e", "/", "f", "l", "o", "o", "d">>

\* "https://n.example/quake"
U_quake == <<"h", "t", "t", "p", "s", ":", "/", "/", "n", ".", "e", "x", "a", "m", "p", "l", "e", "/", "q", "u", "a", "k", "e">>

\* "CRISIS"
A_Crisis == <<"C", "R", "I", "S", "I", "S">>

\* " not crisis\n"
A_NotCrisisPadded == <<" ", "n", "o", "t", " ", "c", "r", "i", "s", "i", "s", "\n">>

\* "No."
A_No == <<"N", "o", ".">>

\* "People Affected: 1,200\nSeverity Score: 75"
A_Impact == <<"P", "e", "o", "p", "l", "e", " ", "A", "f", "f", "e", "c", "t", "e", "d", ":", " ", "1", ",", "2", "0", "0", "\n", "S", "e", "v", "e", "r", "i", "t", "y", " ", "S", "c", "o", "r", "e", ":", " ", "7", "5">>

\* "People Affected: about 3,000\nSeverity Score: 75/100"
A_ImpactOver == <<"P", "e", "o", "p", "l", "e", " ", "A", "f", "f", "e", "c", "t", "e", "d", ":", " ", "a", "b", "o", "u", "t", " ", "3", ",", "0", "0", "0", "\n", "S", "e", "v", "e", "r", "i", "t", "y", " ", "S", "c", "o", "r", "e", ":", " ", "7", "5", "/", "1", "0", "0">>

\* " Floods displaced thousands.\nAid is needed. "
A_Summary == <<" ", "F", "l", "o", "o", "d", "s", " ", "d", "i", "s", "p", "l", "a", "c", "e", "d", " ", "t", "h", "o", "u", "s", "a", "n", "d", "s", ".", "\n", "A", "i", "d", " ", "i", "s", " ", "n", "e", "e", "d", "e", "d", ".", " ">>

\* "Red Cross, https://redcross.org\nUNHCR, https://unhcr.org"
A_ThreeOrgs == <<"R", "e", "d", " ", "C", "r", "o", "s", "s", ",", " ", "h", "t", "t", "p", "s", ":", "/", "/", "r", "e", "d", "c", "r", "o", "s", "s", ".", "o", "r", "g", "\n", "U", "N", "H", "C", "R", ",", " ", "h", "t", "t", "p", "s", ":", "/", "/", "u", "n", "h", "c", "r", ".", "o", "r", "g">>

\* " ,\n, "
A_Commas == <<" ", ",", "\n", ",", " ">>

\* a str holding one lone surrogate, as json.loads yields for "\ud800"
LoneSurrogate == <<"U+D800">>

\* the article dicts handed to process_event, published an earlier day.
\* location is the dict's "location" entry, <<>> for a missing, None or empty
\* one.  The adapters of lines 104-342 store extract_location's value there,
\* which is None as the function stands (lines 345-349); an adapter or caller
\* that fills the entry gives process_event a str of its own choice (line 658).
Articles ==
    { [title |-> T_Flood, description |-> T_WarLooms, url |-> U_flood,
       published |-> [Y |-> 2024, m |-> 12, d |-> 30], location |-> Jakarta],
      [title |-> T_Quake, description |-> <<>>, url |-> U_quake,
       published |-> [Y |-> 2024, m |-> 12, d |-> 30], location |-> <<>>],
      [title |-> T_Aid, description |-> <<>>, url |-> <<>>,
       published |-> [Y |-> 2024, m |-> 12, d |-> 30], location |-> LoneSurrogate] }

\* the most articles one run collects
MaxItems == 2

\* the adapters main calls, in the order of lines 789-812
Sources == {"NewsAPI", "RSS", "Twitter", "Reddit"}

\* the most articles one adapter returns
MaxPerSource == 1

AdapterReturns == UNION {[1..n -> Articles] : n \in 0..MaxPerSource}

\* which credentials and client libraries the process finds at import time
Envs ==
    [OPENAI_API_KEY : BOOLEAN, OPENCAGE_API_KEY : BOOLEAN,
     SHEETS : BOOLEAN, GCS : BOOLEAN, TWITTER : BOOLEAN]

ClassifyAnswers ==
    {Failed(k) : k \in FailureKinds}
        \cup {Answer(A_Crisis), Answer(A_NotCrisisPadded), Answer(A_No)}

ImpactAnswers ==
    {Failed(k) : k \in FailureKinds} \cup {Answer(A_Impact), Answer(A_ImpactOver)}

SummaryAnswers == {Failed(k) : k \in FailureKinds} \cup {Answer(A_Summary)}

DonationAnswers ==
    {Failed(k) : k \in FailureKinds}
        \cup {Answer(A_ThreeOrgs), Answer(A_Commas), Answer(<<>>)}

GeoAnswers ==
    {GeoFailed(k) : k \in GeoTransportFailures}
        \cup {GeoJson(<<>>),
              GeoJson(<<[components |-> 0]>>),
              GeoJson(<<[geometry |-> [lat |-> -62, lng |-> 1068]]>>),
              GeoJson(<<[geometry |-> [lat |-> -62]]>>)}

(***************************************************************************)
(* tweet_crisis: the status text                                           *)
(***************************************************************************)
S_CrisisIn == <<" ", "C", "r", "i", "s", "i", "s", " ", "i", "n", " ">>

S_AffectedBy == <<" ", "a", "f", "f", "e", "c", "t", "e", "d", " ", "b", "y", " ">>

S_Help == <<"\n", "H", "e", "l", "p", ":", " ">>

\* the longest status update_status is given: text[:280]
TweetLimit == 280

\* event['donation_links'][0] raises IndexError on an empty list
TweetTextRaises(event) == event.donation_links = <<>>

\* the f-string of lines 764-769
TweetText(event) ==
    <<"U+1F6A8">> \o S_CrisisIn \o event.location \o <<":", " ">>
        \o PyStr(event.people_affected) \o S_AffectedBy \o event.event_type
        \o <<"\n">> \o event.summary \o S_Help \o event.donation_links[1]

(***************************************************************************)
(* State                                                                   *)
(***************************************************************************)
VARIABLES
    env,              \* the configuration read at import time
    today,            \* index in Dates of the current UTC day
    uuids,            \* how many uuid4 values this run has drawn
    pc,               \* where main / process_event stands
    all_articles,     \* main: the collected articles
    pos,              \* main: how many articles the for loop has taken
    processed_count,  \* main: processed_count
    result,           \* main: the returned status string, "" until it returns
    error_log,        \* main: positions whose "Error processing event" was logged
    classified,       \* the "Crisis classification:" lines logged, one per article
    classification,   \* process_event locals, named as in the code
    people_affected,
    severity_score,
    summary,
    location,
    coords,           \* <<lat, lng>>
    event_type,
    donation_links,
    event_id,
    timestamp,
    row,
    event_record,
    failed,           \* enrichment operations whose collaborator failed for this article
    calls,            \* every operation entered so far, as <<pos, name>>
    sheet,            \* event_id column of the rows appended to the Events sheet
    gcs,              \* the keys of the blobs in the bucket
    tweets,           \* how many statuses were posted
    status,           \* tweet_crisis: the text given to update_status
    geo_query,        \* geocode: the location sent to OpenCage for this article, if any
    donation_arg,     \* the event_type suggest_donations was called with
    fetched,          \* main: what each adapter returned, until the loop starts
    arg,              \* the input of a function checked on its own
    ret               \* and its result

mainVars == <<all_articles, pos, processed_count, result, error_log, classified>>

locals ==
    <<classification, people_affected, severity_score, summary, location, coords,
      event_type, donation_links, event_id, timestamp, row, event_record, status,
      failed>>

sinks == <<sheet, gcs, tweets>>

\* what process_event handed over for the current article
sent == <<geo_query, donation_arg>>

pure == <<arg, ret>>

vars == <<env, today, uuids, pc, mainVars, locals, calls, sinks, sent, fetched, pure>>

NoRecord == [event_id |-> <<>>]

\* process_event's frame is gone: its locals hold nothing any more (the
\* classification and the posted status stay readable until the next article)
Unwind ==
    /\ people_affected' = 0
    /\ severity_score' = 0
    /\ summary' = <<>>
    /\ location' = <<>>
    /\ coords' = <<0, 0>>
    /\ event_type' = <<>>
    /\ donation_links' = <<>>
    /\ event_id' = <<>>
    /\ timestamp' = <<>>
    /\ row' = <<>>
    /\ event_record' = NoRecord
    /\ failed' = {}

Init ==
    /\ env \in Envs
    /\ today = 1
    /\ uuids = 0
    /\ pc = "start"
    /\ all_articles = <<>>
    /\ pos = 0
    /\ processed_count = 0
    /\ result = ""
    /\ error_log = {}
    /\ classified = <<>>
    /\ classification = ""
    /\ people_affected = 0
    /\ severity_score = 0
    /\ summary = <<>>
    /\ location = <<>>
    /\ coords = <<0, 0>>
    /\ event_type = <<>>
    /\ donation_links = <<>>
    /\ event_id = <<>>
    /\ timestamp = <<>>
    /\ row = <<>>
    /\ event_record = NoRecord
    /\ status = <<>>
    /\ failed = {}
    /\ calls = <<>>
    /\ sheet = <<>>
    /\ gcs = {}
    /\ tweets = 0
    /\ geo_query = <<>>
    /\ donation_arg = <<>>
    /\ fetched = <<>>
    /\ arg = <<>>
    /\ ret = <<>>

article == all_articles[pos]

\* f"{title}\n\n{description}"
full_text == article.title \o <<"\n", "\n">> \o article.description

Called(name) == calls' = Append(calls, <<pos, name>>)

\* the answers a completion call can get: none is asked for without the key
Asked(answers) == IF env.OPENAI_API_KEY THEN answers ELSE {Failed("nokey")}

FailedWith(name, resp) ==
    failed' = IF resp.kind \in FailureKinds THEN failed \cup {name} ELSE failed

(***************************************************************************)
(* main                                                                    *)
(***************************************************************************)
\* a slip: the RSS articles are put in front of the NewsAPI ones
ConcatenateRssFirst(news_articles, rss_articles, twitter_posts, reddit_posts) ==
    rss_articles \o news_articles \o twitter_posts \o reddit_posts

\* lines 786-813: what all_articles holds after the four extend calls
Concatenate(news_articles, rss_articles, twitter_posts, reddit_posts) ==
    news_articles \o rss_articles \o twitter_posts \o reddit_posts

\* an adapter without its credential or library returns [] at once (lines
\* 116-118, 162-168, 227-229, 286-292; main skips fetch_news itself, line 789);
\* a configured one returns what it read, [] when its request failed
Fetch(source, configured, items) ==
    [source |-> source, configured |-> source \in configured,
     items |-> IF source \in configured THEN items ELSE <<>>]

\* lines 786-822: collect the articles; nothing collected returns at once
Collect ==
    /\ pc = "start"
    /\ \E configured \in SUBSET Sources :
       \E news_articles \in AdapterReturns, rss_articles \in AdapterReturns,
          twitter_posts \in AdapterReturns, reddit_posts \in AdapterReturns :
          LET got == <<Fetch("NewsAPI", configured, news_articles),
                       Fetch("RSS", configured, rss_articles),
                       Fetch("Twitter", configured, twitter_posts),
                       Fetch("Reddit", configured, reddit_posts)>>
              batch == Concatenate(got[1].items, got[2].items, got[3].items, got[4].items)
          IN  /\ Len(batch) <= MaxItems
              /\ fetched' = got
              /\ all_articles' = batch
              /\ IF batch = <<>>
                 THEN pc' = "done" /\ result' = "OK - No articles to process"
                 ELSE pc' = "loop" /\ result' = result
    /\ UNCHANGED <<env, today, uuids, pos, processed_count, error_log, classified,
                   locals, calls, sinks, sent, pure>>

\* a slip: main reports in its status that an article raised
NextArticleReportsErrors ==
    /\ pc = "loop"
    /\ IF pos < Len(all_articles)
       THEN /\ pos' = pos + 1
            /\ pc' = "classify"
            /\ result' = result
       ELSE /\ pos' = pos
            /\ pc' = "done"
            /\ result' = IF error_log = {} THEN "OK" ELSE "ERROR"
    /\ classification' = ""
    /\ status' = <<>>
    /\ geo_query' = <<>>
    /\ donation_arg' = <<>>
    /\ fetched' = <<>>
    /\ UNCHANGED <<env, today, uuids, all_articles, processed_count, error_log,
                   classified, people_affected, severity_score, summary, location, coords,
                   event_type, donation_links, event_id, timestamp, row,
                   event_record, failed, calls, sinks, pure>>

\* line 824: the for loop takes the next article, or main returns "OK"
NextArticle ==
    /\ pc = "loop"
    /\ IF pos < Len(all_articles)
       THEN /\ pos' = pos + 1
            /\ pc' = "classify"
            /\ result' = result
       ELSE /\ pos' = pos
            /\ pc' = "done"
            /\ result' = "OK"
    /\ classification' = ""
    /\ status' = <<>>
    /\ geo_query' = <<>>
    /\ donation_arg' = <<>>
    /\ fetched' = <<>>
    /\ UNCHANGED <<env, today, uuids, all_articles, processed_count, error_log,
                   classified, people_affected, severity_score, summary, location, coords,
                   event_type, donation_links, event_id, timestamp, row,
                   event_record, failed, calls, sinks, pure>>

\* lines 827-828: process_event returned, the article is counted
Returned ==
    /\ pc' = "loop"
    /\ processed_count' = processed_count + 1
    /\ error_log' = error_log
    /\ Unwind

\* a slip: the try statement wraps the whole loop, so the first exception ends it
RaisedStops ==
    /\ pc' = "done"
    /\ processed_count' = processed_count
    /\ error_log' = error_log \cup {pos}
    /\ Unwind

\* a slip: the article is counted before process_event is called
RaisedCounted ==
    /\ pc' = "loop"
    /\ processed_count' = processed_count + 1
    /\ error_log' = error_log \cup {pos}
    /\ Unwind

\* lines 829-831: process_event raised; the error is logged, the loop goes on
Raised ==
    /\ pc' = "loop"
    /\ processed_count' = processed_count
    /\ error_log' = error_log \cup {pos}
    /\ Unwind

(***************************************************************************)
(* process_event, one action per call it makes                             *)
(***************************************************************************)
\* a slip: the filter lets every article through
PassesFilterAlways(c) == TRUE

\* line 646: only "CRISIS" goes on
PassesFilter(c) == c = "CRISIS"

\* lines 636-648: classify; anything but CRISIS returns at once
Classify ==
    /\ pc = "classify"
    /\ Called("classify_crisis")
    /\ \E resp \in Asked(ClassifyAnswers) :
          LET c == classify_crisis(env.OPENAI_API_KEY, resp)
          IN  /\ classification' = c
              /\ classified' = Append(classified, c)
              /\ IF PassesFilter(c)
                 THEN /\ pc' = "impact"
                      /\ UNCHANGED <<processed_count, error_log, people_affected,
                                     severity_score, summary, location, coords,
                                     event_type, donation_links, event_id,
                                     timestamp, row, event_record, failed>>
                 ELSE Returned
    /\ UNCHANGED <<fetched, env, today, uuids, all_articles, pos, result, status, sinks, sent,
                   pure>>

\* line 650
EstimateImpact ==
    /\ pc = "impact"
    /\ Called("estimate_impact")
    /\ \E resp \in Asked(ImpactAnswers) :
          LET r == estimate_impact(env.OPENAI_API_KEY, resp)
          IN  /\ people_affected' = r[1]
              /\ severity_score' = r[2]
              /\ FailedWith("estimate_impact", resp)
    /\ pc' = "summary"
    /\ UNCHANGED <<fetched, env, today, uuids, mainVars, classification, summary, location,
                   coords, event_type, donation_links, event_id, timestamp, row,
                   event_record, status, sinks, sent, pure>>

\* line 653
GenerateSummary ==
    /\ pc = "summary"
    /\ Called("generate_summary")
    /\ \E resp \in Asked(SummaryAnswers) :
          /\ summary' = generate_summary(env.OPENAI_API_KEY, resp)
          /\ FailedWith("generate_summary", resp)
    /\ pc' = "geocode"
    /\ UNCHANGED <<fetched, env, today, uuids, mainVars, classification, people_affected,
                   severity_score, location, coords, event_type, donation_links,
                   event_id, timestamp, row, event_record, status, sinks, sent, pure>>

\* a slip: the location is taken as the article gives it, empty or not
ResolveLocationAsGiven(hint) == hint

\* line 658: article.get("location") or "Unknown"
ResolveLocation(hint) == IF hint = <<>> THEN Unknown ELSE hint

\* lines 658-662: resolve the location and geocode it.  The URL is built
\* before the try block, so a location quote() cannot encode raises out of
\* geocode and out of process_event.
Geocode ==
    /\ pc = "geocode"
    /\ Called("geocode")
    /\ LET loc == ResolveLocation(article.location)
       IN  IF ~GeocodeSkipped(env.OPENCAGE_API_KEY, loc) /\ QuoteRaises(loc)
           THEN Raised /\ geo_query' = geo_query
           ELSE /\ location' = loc
                /\ pc' = "donations"
                /\ IF GeocodeSkipped(env.OPENCAGE_API_KEY, loc)
                   THEN coords' = <<0, 0>> /\ failed' = failed
                                           /\ geo_query' = geo_query
                   ELSE \E resp \in GeoAnswers :
                           /\ geo_query' = loc
                           /\ coords' = geocode(env.OPENCAGE_API_KEY, loc, resp)
                           /\ failed' = IF GeoExcepted(resp)
                                        THEN failed \cup {"geocode"} ELSE failed
                /\ UNCHANGED <<processed_count, error_log, people_affected,
                               severity_score, summary, event_type, donation_links,
                               event_id, timestamp, row, event_record>>
    /\ UNCHANGED <<fetched, env, today, uuids, all_articles, pos, result, classification,
                   classified, status, sinks, donation_arg, pure>>

\* a slip: suggest_donations is called before the event type is inferred
SuggestDonationsUntyped ==
    /\ pc = "donations"
    /\ calls' = calls \o <<<<pos, "suggest_donations">>, <<pos, "infer_event_type">>>>
    /\ donation_arg' = event_type
    /\ event_type' = infer_event_type(full_text)
    /\ \E resp \in Asked(DonationAnswers) :
          /\ donation_links' = suggest_donations(env.OPENAI_API_KEY, resp)
          /\ FailedWith("suggest_donations", resp)
    /\ pc' = "assemble"
    /\ UNCHANGED <<fetched, env, today, uuids, mainVars, classification, people_affected,
                   severity_score, summary, location, coords, event_id, timestamp,
                   row, event_record, status, sinks, geo_query, pure>>

\* lines 665-668: infer the event type, then ask for donation links for it
SuggestDonations ==
    /\ pc = "donations"
    /\ calls' = calls \o <<<<pos, "infer_event_type">>, <<pos, "suggest_donations">>>>
    /\ event_type' = infer_event_type(full_text)
    /\ donation_arg' = event_type'
    /\ \E resp \in Asked(DonationAnswers) :
          /\ donation_links' = suggest_donations(env.OPENAI_API_KEY, resp)
          /\ FailedWith("suggest_donations", resp)
    /\ pc' = "assemble"
    /\ UNCHANGED <<fetched, env, today, uuids, mainVars, classification, people_affected,
                   severity_score, summary, location, coords, event_id, timestamp,
                   row, event_record, status, sinks, geo_query, pure>>

\* a slip: summary and event_type change places in the row
ComposeRowSwapped(ts, id, loc, latlng, type, text, people, severity, links) ==
    <<ts, id, loc, latlng[1], latlng[2], text, type, people, severity,
      JsonDumpsList(links)>>

\* lines 676-687
ComposeRow(ts, id, loc, latlng, type, text, people, severity, links) ==
    <<ts, id, loc, latlng[1], latlng[2], type, text, people, severity,
      JsonDumpsList(links)>>

\* lines 692-706
ComposeRecord(ts, id, loc, latlng, type, art, text, people, severity, links) ==
    [timestamp |-> ts, event_id |-> id, location |-> loc,
     lat |-> latlng[1], lng |-> latlng[2], event_type |-> type,
     title |-> art.title, description |-> art.description, summary |-> text,
     people_affected |-> people, severity_score |-> severity,
     donation_links |-> links, source_url |-> art.url]

\* lines 671-688: draw the identity and compose the row
Assemble ==
    /\ pc = "assemble"
    /\ uuids' = uuids + 1
    /\ event_id' = Uuid4(uuids')
    /\ timestamp' = IsoFormat(Dates[today])
    /\ row' = ComposeRow(timestamp', event_id', location, coords, event_type,
                         summary, people_affected, severity_score, donation_links)
    /\ pc' = "sheet"
    /\ UNCHANGED <<fetched, env, today, mainVars, classification, people_affected,
                   severity_score, summary, location, coords, event_type,
                   donation_links, event_record, status, failed, calls, sinks, sent,
                   pure>>

\* a slip: write_to_sheet without its except clause lets the client's error out
SheetErrorEscapes(outcome) == outcome = "raise"

\* lines 574-594: whether an outcome of the Sheets client leaves write_to_sheet
\* as an exception; the except clause logs every Exception and returns
SheetErrorPropagates(outcome) == FALSE

\* lines 689-707: write_to_sheet(row), then compose event_record
WriteToSheet ==
    /\ pc = "sheet"
    /\ Called("write_to_sheet")
    /\ \E outcome \in (IF env.SHEETS THEN {"ok", "raise"} ELSE {"skipped"}) :
          /\ sheet' = IF outcome = "ok" THEN Append(sheet, row[2]) ELSE sheet
          /\ IF SheetErrorPropagates(outcome)
             THEN Raised
             ELSE /\ pc' = "gcs"
                  /\ event_record' =
                        ComposeRecord(timestamp, event_id, location, coords,
                                      event_type, article, summary, people_affected,
                                      severity_score, donation_links)
                  /\ UNCHANGED <<processed_count, error_log, people_affected,
                                 severity_score, summary, location, coords,
                                 event_type, donation_links, event_id, timestamp,
                                 row, failed>>
    /\ UNCHANGED <<fetched, env, today, uuids, all_articles, pos, result, classified,
                   classification, status, gcs, tweets, sent, pure>>

\* a slip: the key is dated by the day the record's timestamp was taken
save_to_gcs_now_stale ==
    CHOOSE date \in {Dates[i] : i \in 1..Len(Dates)} : IsoFormat(date) = timestamp

\* line 611: now = datetime.now(timezone.utc)
save_to_gcs_now == Dates[today]

\* line 708: save_to_gcs(event_id, event_record).  "acl" is an upload that
\* succeeds followed by a make_public() that raises: the blob is stored.
SaveToGcs ==
    /\ pc = "gcs"
    /\ Called("save_to_gcs")
    /\ \E outcome \in (IF env.GCS THEN {"ok", "raise", "acl"} ELSE {"skipped"}) :
          gcs' = IF outcome \in {"ok", "acl"}
                 THEN gcs \cup {ObjectKey(save_to_gcs_now, event_id)}
                 ELSE gcs
    /\ pc' = "tweet"
    /\ UNCHANGED <<fetched, env, today, uuids, mainVars, classification, people_affected,
                   severity_score, summary, location, coords, event_type,
                   donation_links, event_id, timestamp, row, event_record, status,
                   failed, sheet, tweets, sent, pure>>

\* lines 711-717: tweet_crisis(event_record), then process_event returns.
\* Inside tweet_crisis everything after the credential test runs in one try:
\* "import" is a failing import of tweepy, "raise" a failing update_status.
TweetCrisis ==
    /\ pc = "tweet"
    /\ Called("tweet_crisis")
    /\ \E outcome \in (IF env.TWITTER THEN {"ok", "raise", "import"}
                                      ELSE {"skipped"}) :
          IF outcome = "ok" /\ ~TweetTextRaises(event_record)
          THEN /\ status' = PyPrefix(TweetText(event_record), TweetLimit)
               /\ tweets' = tweets + 1
          ELSE UNCHANGED <<tweets, status>>
    /\ Returned
    /\ UNCHANGED <<fetched, env, today, uuids, all_articles, pos, result, classified,
                   classification, sheet, gcs, sent, pure>>

\* midnight UTC passes while the batch runs.  The clock is read at lines 611
\* and 672 only, so the day changes just before one of the two reads.
Tick ==
    /\ pc \in {"assemble", "gcs"}
    /\ today < Len(Dates)
    /\ today' = today + 1
    /\ UNCHANGED <<fetched, env, uuids, pc, mainVars, locals, calls, sinks, sent, pure>>

Next ==
    \/ Collect
    \/ NextArticle
    \/ Classify
    \/ EstimateImpact
    \/ GenerateSummary
    \/ Geocode
    \/ SuggestDonations
    \/ Assemble
    \/ WriteToSheet
    \/ SaveToGcs
    \/ TweetCrisis
    \/ Tick

Spec == Init /\ [][Next]_vars

(***************************************************************************)
(* The functions checked on their own: a call is drawn in the initial      *)
(* state (arg) and one action applies the function to it (ret)             *)
(***************************************************************************)
\* everything of main at rest while a single function is called
AtRest ==
    /\ env = [OPENAI_API_KEY |-> TRUE, OPENCAGE_API_KEY |-> TRUE,
              SHEETS |-> TRUE, GCS |-> TRUE, TWITTER |-> TRUE]
    /\ today = 1
    /\ uuids = 0
    /\ all_articles = <<>>
    /\ pos = 0
    /\ processed_count = 0
    /\ result = ""
    /\ error_log = {}
    /\ classified = <<>>
    /\ classification = ""
    /\ people_affected = 0
    /\ severity_score = 0
    /\ summary = <<>>
    /\ location = <<>>
    /\ coords = <<0, 0>>
    /\ event_type = <<>>
    /\ donation_links = <<>>
    /\ event_id = <<>>
    /\ timestamp = <<>>
    /\ row = <<>>
    /\ event_record = NoRecord
    /\ status = <<>>
    /\ failed = {}
    /\ calls = <<>>
    /\ sheet = <<>>
    /\ gcs = {}
    /\ tweets = 0
    /\ geo_query = <<>>
    /\ donation_arg = <<>>
    /\ fetched = <<>>

atRest == <<env, today, uuids, mainVars, locals, calls, sinks, sent, fetched>>

\* "War"
W_War == <<"W", "a", "r">>

\* "BATTLE"
W_BATTLE == <<"B", "A", "T", "T", "L", "E">>

\* "Hunger"
W_Hunger == <<"H", "u", "n", "g", "e", "r">>

\* "Storm"
W_Storm == <<"S", "t", "o", "r", "m">>

\* "Quake"
W_Quake == <<"Q", "u", "a", "k", "e">>

\* "early warning"
W_warning == <<"e", "a", "r", "l", "y", " ", "w", "a", "r", "n", "i", "n", "g">>

\* "aid"
W_aid == <<"a", "i", "d">>

\* words the texts given to infer_event_type are made of: every keyword of the
\* code, spellings in other letter cases, a word that holds a keyword inside
\* another word, and a word that holds none
InferWords ==
    WarKeywords \cup FamineKeywords \cup FloodKeywords \cup EarthquakeKeywords
        \cup DroughtKeywords
        \cup {W_War, W_BATTLE, W_Hunger, W_Storm, W_Quake, W_warning, W_aid}

\* the most words in a text given to infer_event_type
MaxWords == 2

RECURSIVE JoinWords(_)
JoinWords(ws) ==
    IF ws = <<>> THEN <<>>
    ELSE IF Len(ws) = 1 THEN ws[1]
    ELSE ws[1] \o <<" ">> \o JoinWords(Tail(ws))

InferTexts == {JoinWords(ws) : ws \in UNION {[1..n -> InferWords] : n \in 0..MaxWords}}

InitInfer ==
    /\ AtRest
    /\ pc = "infer_call"
    /\ arg \in InferTexts
    /\ ret = <<>>

InferCall ==
    /\ pc = "infer_call"
    /\ ret' = infer_event_type(arg)
    /\ pc' = "infer_done"
    /\ UNCHANGED <<atRest, arg>>

SpecInfer == InitInfer /\ [][InferCall]_vars

(***************************************************************************)
(* C10: infer_event_type is total: it returns one of the six labels, the   *)
(* label of the first keyword set, in the order War, Famine, Flood,        *)
(* Earthquake, Drought, with a keyword inside the lower-cased text, and    *)
(* Other when no set has one; a text with both "war" and "flood" is War.   *)
(***************************************************************************)
EventTypes == {War, Famine, Flood, Earthquake, Drought, Other}

KeywordSets ==
    <<[label |-> War, keywords |-> WarKeywords],
      [label |-> Famine, keywords |-> FamineKeywords],
      [label |-> Flood, keywords |-> FloodKeywords],
      [label |-> Earthquake, keywords |-> EarthquakeKeywords],
      [label |-> Drought, keywords |-> DroughtKeywords]>>

\* the positions in KeywordSets of the sets with a keyword inside text
Matching(text) ==
    {i \in 1..Len(KeywordSets) :
        \E k \in KeywordSets[i].keywords : PyIn(k, PyLower(text))}

C10_FirstMatchWins ==
    pc = "infer_done" =>
        /\ ret \in EventTypes
        /\ Matching(arg) = {} => ret = Other
        /\ \A i \in Matching(arg) :
              (\A j \in Matching(arg) : i <= j) => ret = KeywordSets[i].label
        /\ PyIn(KW_war, PyLower(arg)) /\ PyIn(KW_flood, PyLower(arg)) => ret = War

\* a text that names the flood before the war, in capitals, and comes out as War
C10_Witness ==
    /\ pc = "infer_done"
    /\ arg = KW_flood \o <<" ">> \o W_War
    /\ ret = War

\* the calls of the five enrichment operations: with and without the
\* credential, on every answer of the collaborator; geocode also on every
\* kind of location
EnrichCalls ==
    [op : {"classify_crisis"}, key : BOOLEAN, location : {<<>>},
     resp : ClassifyAnswers]
    \cup [op : {"estimate_impact"}, key : BOOLEAN, location : {<<>>},
          resp : ImpactAnswers]
    \cup [op : {"generate_summary"}, key : BOOLEAN, location : {<<>>},
          resp : SummaryAnswers]
    \cup [op : {"suggest_donations"}, key : BOOLEAN, location : {<<>>},
          resp : DonationAnswers]
    \cup [op : {"geocode"}, key : BOOLEAN,
          location : {<<>>, Unknown, Jakarta, LoneSurrogate}, resp : GeoAnswers]

\* whether the call raises instead of returning
EnrichRaises(call) ==
    /\ call.op = "geocode"
    /\ ~GeocodeSkipped(call.key, call.location)
    /\ QuoteRaises(call.location)

\* what the call returns
EnrichValue(call) ==
    CASE call.op = "classify_crisis" -> classify_crisis(call.key, call.resp)
      [] call.op = "estimate_impact" -> estimate_impact(call.key, call.resp)
      [] call.op = "generate_summary" -> generate_summary(call.key, call.resp)
      [] call.op = "suggest_donations" -> suggest_donations(call.key, call.resp)
      [] call.op = "geocode" -> geocode(call.key, call.location, call.resp)

InitEnrich ==
    /\ AtRest
    /\ pc = "enrich_call"
    /\ arg \in EnrichCalls
    /\ ret = <<>>

EnrichCall ==
    /\ pc = "enrich_call"
    /\ ret' = IF EnrichRaises(arg) THEN [raised |-> TRUE, value |-> <<>>]
              ELSE [raised |-> FALSE, value |-> EnrichValue(arg)]
    /\ pc' = "enrich_done"
    /\ UNCHANGED <<atRest, arg>>

SpecEnrich == InitEnrich /\ [][EnrichCall]_vars

(***************************************************************************)
(* C3: each enrichment operation returns its documented fallback, and      *)
(* raises nothing, when its credential is missing or when its collaborator *)
(* was called and raised, timed out or sent a payload that cannot be read  *)
(* (no message content; for geocode a non-2xx status, a body that is not   *)
(* JSON or a first result without geometry).                               *)
(***************************************************************************)
Fallback(op) ==
    CASE op = "classify_crisis" -> "NOT CRISIS"
      [] op = "estimate_impact" -> <<0, 0>>
      [] op = "generate_summary" -> <<>>
      [] op = "suggest_donations" -> <<DirectRelief, Unhcr>>
      [] op = "geocode" -> <<0, 0>>

\* the collaborator of the call was reached and failed
CollaboratorFailed(call) ==
    /\ call.key
    /\ IF call.op = "geocode"
       THEN /\ call.location # <<>>
            /\ ~QuoteRaises(call.location)
            /\ GeoExcepted(call.resp)
       ELSE call.resp.kind \in FailureKinds

Count(i, name) == Cardinality({k \in 1..Len(calls) : calls[k] = <<i, name>>})

\* the operations entered for the article at position i, in order
NamesOf(i) ==
    LET Mine(c) == c[1] = i
        mine == SelectSeq(calls, Mine)
    IN  [k \in 1..Len(mine) |-> mine[k][2]]

\* process_event has returned or raised for the article at position i
Finished(i) == i < pos \/ (i = pos /\ pc \in {"loop", "done"})

\* process_event holds an assembled event_record
Assembled == pc \in {"gcs", "tweet"}

\* json.loads of a JSON list of strings, read character by character
RECURSIVE JsonScan(_, _, _, _, _)
JsonScan(s, i, inString, current, items) ==
    IF i > Len(s) THEN items
    ELSE IF ~inString
         THEN JsonScan(s, i + 1, s[i] = "\"", <<>>, items)
         ELSE IF s[i] = "\\"
              THEN JsonScan(s, i + 2, TRUE, Append(current, s[i + 1]), items)
              ELSE IF s[i] = "\""
                   THEN JsonScan(s, i + 1, FALSE, <<>>, Append(items, current))
                   ELSE JsonScan(s, i + 1, TRUE, Append(current, s[i]), items)

JsonLoadsList(s) == JsonScan(s, 1, FALSE, <<>>, <<>>)

(***************************************************************************)
(* C1: an article whose classification is not CRISIS gets no further       *)
(* enrichment call and no sink call (the only operation entered for it is  *)
(* classify_crisis), process_event returns at once without an error, and   *)
(* the article is counted as processed.                                    *)
(***************************************************************************)
C1_NotCrisisIsSkipped ==
    /\ \A i \in 1..Len(classified) :
          classified[i] # "CRISIS" =>
              /\ NamesOf(i) = <<"classify_crisis">>
              /\ Finished(i)
              /\ i \notin error_log
    /\ pc \in {"loop", "done"} => processed_count = pos - Cardinality(error_log)

\* two articles answered "No." by the classifier: both skipped, both counted
C1_Witness ==
    /\ pc = "loop"
    /\ env.OPENAI_API_KEY
    /\ classified = <<"NOT CRISIS", "NOT CRISIS">>
    /\ processed_count = 2
    /\ sheet = <<>> /\ gcs = {} /\ tweets = 0

(***************************************************************************)
(* C2: an exception out of process_event is caught in main's loop: the     *)
(* article is logged as an error and not counted, the loop goes on, and    *)
(* when main returns every collected article has been given to             *)
(* process_event once and main has returned its status string.             *)
(***************************************************************************)
C2_ErrorsAreIsolated ==
    /\ \A i \in error_log : Finished(i)
    /\ pc \in {"loop", "done"} => processed_count = pos - Cardinality(error_log)
    /\ pc \notin {"start", "loop", "done"} =>
          processed_count = pos - 1 - Cardinality(error_log)
    /\ pc = "done" =>
          /\ result \in {"OK", "OK - No articles to process"}
          /\ pos = Len(all_articles)
          /\ \A i \in 1..Len(all_articles) : Count(i, "classify_crisis") = 1

\* the first article raised, the second was still processed and counted
C2_Witness ==
    /\ pc = "done"
    /\ error_log = {1}
    /\ Len(classified) = 2
    /\ classified[2] = "CRISIS"
    /\ Count(2, "tweet_crisis") = 1
    /\ processed_count = 1
    /\ result = "OK"

C5_SeverityInRange ==
    Assembled =>
        /\ event_record.severity_score \in 0..100
        /\ event_record.people_affected \in Nat
        /\ row[9] \in 0..100
        /\ row[8] \in Nat

(***************************************************************************)
(* C6: in every assembled record donation_links is not empty.              *)
(***************************************************************************)
C6_DonationLinksNotEmpty ==
    Assembled => event_record.donation_links # <<>>


(***************************************************************************)
(* C7: no outcome of a sink leaves process_event as an exception or stops  *)
(* the loop.  Once write_to_sheet was entered for an article, whether the  *)
(* sheet took the row, failed or was not configured, save_to_gcs is        *)
(* entered next and, whatever the bucket did, tweet_crisis after it, each  *)
(* once; the article is then counted and never logged as an error.         *)
(***************************************************************************)
C7_SinksAreIndependent ==
    \A i \in 1..pos :
        Count(i, "write_to_sheet") = 1 =>
            /\ i \notin error_log
            /\ i = pos /\ pc = "tweet" => Count(i, "save_to_gcs") = 1
            /\ Finished(i) =>
                  /\ SubSeq(NamesOf(i), Len(NamesOf(i)) - 2, Len(NamesOf(i)))
                        = <<"write_to_sheet", "save_to_gcs", "tweet_crisis">>
                  /\ Count(i, "save_to_gcs") = 1
                  /\ Count(i, "tweet_crisis") = 1
                  /\ (i = pos => processed_count = pos - Cardinality(error_log))

\* the Sheets client raised for the only article so far; its record is in the
\* bucket and on Twitter all the same, with no row in the sheet
C7_Witness ==
    /\ pc = "loop"
    /\ pos = 1
    /\ env.SHEETS /\ env.GCS /\ env.TWITTER
    /\ Count(1, "write_to_sheet") = 1
    /\ sheet = <<>>
    /\ Cardinality(gcs) = 1
    /\ tweets = 1
    /\ processed_count = 1
    /\ error_log = {}

(***************************************************************************)
(* C8: every blob stored in the bucket gets the key                        *)
(* events/YYYY/MM/DD/<event_id>.json, where event_id is that of the record *)
(* being written and the date is the UTC day at the moment of the write,   *)
(* which is neither the article's day of publication nor always the day of *)
(* the record's timestamp; the key is one no blob of the run has yet.      *)
(***************************************************************************)
C8_KeyIsDatedAtWrite ==
    [][gcs' # gcs =>
          /\ pc = "gcs"
          /\ ObjectKey(Dates[today], event_record.event_id) \notin gcs
          /\ gcs' = gcs \cup {ObjectKey(Dates[today], event_record.event_id)}
          /\ ObjectKey(article.published, event_record.event_id) \notin gcs']_vars

\* midnight passed between the record's timestamp and its upload: the second
\* blob of the run is stored under the new day, the timestamp names the old one
C8_Witness ==
    /\ pc = "tweet"
    /\ Cardinality(gcs) = 2
    /\ today = 2
    /\ event_record.timestamp = IsoFormat(Dates[1])
    /\ ObjectKey(Dates[2], event_record.event_id) \in gcs
    /\ ObjectKey(Dates[1], event_record.event_id) \notin gcs

(***************************************************************************)
(* C9: the row given to write_to_sheet is timestamp, event_id, location,   *)
(* lat, lng, event_type, summary, people_affected, severity_score and the  *)
(* JSON text of donation_links, in this order; every value is that of the  *)
(* same field of the event_record given to save_to_gcs for the article,    *)
(* the JSON text reads back as the record's donation_links, and the        *)
(* record's title and description are the article's.                       *)
(***************************************************************************)
C9_RowMatchesRecord ==
    Assembled =>
        /\ Len(row) = 10
        /\ row[1] = event_record.timestamp
        /\ row[2] = event_record.event_id
        /\ row[3] = event_record.location
        /\ row[4] = event_record.lat
        /\ row[5] = event_record.lng
        /\ row[6] = event_record.event_type
        /\ row[7] = event_record.summary
        /\ row[8] = event_record.people_affected
        /\ row[9] = event_record.severity_score
        /\ row[10] = JsonDumpsList(event_record.donation_links)
        /\ JsonLoadsList(row[10]) = event_record.donation_links
        /\ event_record.title = article.title
        /\ event_record.description = article.description
        /\ Count(pos, "write_to_sheet") = 1

\* the Jakarta article, fully enriched: the row in the sheet and the record agree
C9_Witness ==
    /\ pc = "gcs"
    /\ sheet = <<event_record.event_id>>
    /\ row[3] = Jakarta
    /\ row[4] = -62 /\ row[5] = 1068
    /\ row[6] = War
    /\ row[7] # <<>>
    /\ row[8] = 1200 /\ row[9] = 75
    /\ Len(event_record.donation_links) = 3
    /\ event_record.title = T_Flood


(***************************************************************************)
(* estimate_impact called on its own: the completion answers with up to    *)
(* MaxLines lines.  Each line is given with what it says: the field it     *)
(* names (if any) and the number its value holds (0 for none).             *)
(***************************************************************************)
\* "People Affected: 1,200"
L_People1200 == <<"P", "e", "o", "p", "l", "e", " ", "A", "f", "f", "e", "c", "t", "e", "d", ":", " ", "1", ",", "2", "0", "0">>

\* "Severity Score: 75"
L_Severity75 == <<"S", "e", "v", "e", "r", "i", "t", "y", " ", "S", "c", "o", "r", "e", ":", " ", "7", "5">>

\* "People Affected: many"
L_PeopleMany == <<"P", "e", "o", "p", "l", "e", " ", "A", "f", "f", "e", "c", "t", "e", "d", ":", " ", "m", "a", "n", "y">>

\* "Severity: high"
L_SeverityHigh == <<"S", "e", "v", "e", "r", "i", "t", "y", ":", " ", "h", "i", "g", "h">>

\* "PEOPLE: 5"
L_PEOPLE5 == <<"P", "E", "O", "P", "L", "E", ":", " ", "5">>

\* "  severity : 40%"
L_SeverityPct == <<" ", " ", "s", "e", "v", "e", "r", "i", "t", "y", " ", ":", " ", "4", "0", "%">>

\* "Other: 9"
L_OtherKey == <<"O", "t", "h", "e", "r", ":", " ", "9">>

\* "about 12 dead"
L_NoColon == <<"a", "b", "o", "u", "t", " ", "1", "2", " ", "d", "e", "a", "d">>

\* "People Affected: 1200 per km" followed by U+00B2, superscript two
L_PeopleKm2 == <<"P", "e", "o", "p", "l", "e", " ", "A", "f", "f", "e", "c", "t", "e", "d", ":", " ", "1", "2", "0", "0", " ", "p", "e", "r", " ", "k", "m">> \o <<"U+00B2">>

AnswerLines ==
    { [text |-> L_People1200, field |-> "people", number |-> 1200],
      [text |-> L_Severity75, field |-> "severity", number |-> 75],
      [text |-> L_PeopleMany, field |-> "people", number |-> 0],
      [text |-> L_SeverityHigh, field |-> "severity", number |-> 0],
      [text |-> L_PEOPLE5, field |-> "people", number |-> 5],
      [text |-> L_SeverityPct, field |-> "severity", number |-> 40],
      [text |-> L_OtherKey, field |-> "none", number |-> 0],
      [text |-> L_NoColon, field |-> "none", number |-> 0],
      [text |-> L_PeopleKm2, field |-> "people", number |-> 1200] }

\* the most lines in an answer given to estimate_impact
MaxLines == 2

\* "\n".join(texts)
RECURSIVE JoinLines(_)
JoinLines(texts) ==
    IF texts = <<>> THEN <<>>
    ELSE IF Len(texts) = 1 THEN texts[1]
    ELSE texts[1] \o <<"\n">> \o JoinLines(Tail(texts))

InitImpact ==
    /\ AtRest
    /\ pc = "impact_call"
    /\ arg \in UNION {[1..n -> AnswerLines] : n \in 0..MaxLines}
    /\ ret = <<>>

ImpactCall ==
    /\ pc = "impact_call"
    /\ ret' = estimate_impact(TRUE, Answer(JoinLines([i \in 1..Len(arg) |-> arg[i].text])))
    /\ pc' = "impact_done"
    /\ UNCHANGED <<atRest, arg>>

SpecImpact == InitImpact /\ [][ImpactCall]_vars

\* what the answer says of a field: the number of the last line naming it
SaidOf(lines, field) ==
    LET named == {i \in 1..Len(lines) : lines[i].field = field}
    IN  IF named = {} THEN 0
        ELSE lines[CHOOSE i \in named : \A j \in named : j <= i].number

(***************************************************************************)
(* C11: estimate_impact reads every line of the answer, takes a line whose *)
(* key starts with "people" or "severity" (in any letter case) for that    *)
(* field, makes the field the integer of the digits of the line's value,   *)
(* 0 when the value has no digit, leaves the other field alone and skips   *)
(* every line without a colon or with another key; the two answers of the  *)
(* specification give (1200, 75) and (0, 0).                               *)
(***************************************************************************)
C11_ImpactParsing ==
    pc = "impact_done" =>
        /\ ret = <<SaidOf(arg, "people"), SaidOf(arg, "severity")>>
        /\ [i \in 1..Len(arg) |-> arg[i].text] = <<L_People1200, L_Severity75>>
              => ret = <<1200, 75>>
        /\ [i \in 1..Len(arg) |-> arg[i].text] = <<L_PeopleMany, L_SeverityHigh>>
              => ret = <<0, 0>>


(***************************************************************************)
(* suggest_donations called on its own: the completion answers with up to  *)
(* MaxPieces pieces, each followed by a comma or a newline.  Each piece is *)
(* given with the fragment it holds between its whitespace (<<>> if none). *)
(***************************************************************************)
\* "Red Cross"
F_RedCross == <<"R", "e", "d", " ", "C", "r", "o", "s", "s">>

\* "https://redcross.org"
F_RedCrossUrl == <<"h", "t", "t", "p", "s", ":", "/", "/", "r", "e", "d", "c", "r", "o", "s", "s", ".", "o", "r", "g">>

\* "UNHCR"
F_UNHCR == <<"U", "N", "H", "C", "R">>

AnswerPieces ==
    { [text |-> F_RedCross, fragment |-> F_RedCross],
      [text |-> <<" ">> \o F_RedCrossUrl, fragment |-> F_RedCrossUrl],
      [text |-> <<" ">> \o F_UNHCR \o <<" ", "\t">>, fragment |-> F_UNHCR],
      [text |-> <<>>, fragment |-> <<>>],
      [text |-> <<" ">>, fragment |-> <<>>] }

Separators == {",", "\n"}

\* the most pieces in an answer given to suggest_donations
MaxPieces == 4

\* the answer: every piece followed by its separator
RECURSIVE JoinPieces(_)
JoinPieces(pieces) ==
    IF pieces = <<>> THEN <<>>
    ELSE pieces[1].text \o <<pieces[1].sep>> \o JoinPieces(Tail(pieces))

InitDonations ==
    /\ AtRest
    /\ pc = "donations_call"
    /\ arg \in UNION {[1..n -> {[text |-> p.text, fragment |-> p.fragment, sep |-> s] :
                                   p \in AnswerPieces, s \in Separators}] :
                        n \in 0..MaxPieces}
    /\ ret = <<>>

DonationsCall ==
    /\ pc = "donations_call"
    /\ ret' = suggest_donations(TRUE, Answer(JoinPieces(arg)))
    /\ pc' = "donations_done"
    /\ UNCHANGED <<atRest, arg>>

SpecDonations == InitDonations /\ [][DonationsCall]_vars

\* the fragments the pieces hold, in order, without the empty ones
RECURSIVE HeldFragments(_)
HeldFragments(pieces) ==
    IF pieces = <<>> THEN <<>>
    ELSE (IF pieces[1].fragment = <<>> THEN <<>> ELSE <<pieces[1].fragment>>)
         \o HeldFragments(Tail(pieces))

(***************************************************************************)
(* C12: when the completion answers, suggest_donations returns the first   *)
(* three (or all, if fewer) of the answer's fragments between commas and   *)
(* newlines, trimmed, the empty ones dropped, in the answer's order; never *)
(* more than three.                                                        *)
(***************************************************************************)
C12_FirstThreeFragments ==
    pc = "donations_done" =>
        /\ Len(ret) <= 3
        /\ Len(ret) <= Len(HeldFragments(arg))
        /\ Len(HeldFragments(arg)) <= 3 => ret = HeldFragments(arg)
        /\ Len(HeldFragments(arg)) > 3 => ret = SubSeq(HeldFragments(arg), 1, 3)

\* four fragments on two lines, in padded pieces: the fourth is cut
C12_Witness ==
    /\ pc = "donations_done"
    /\ Len(arg) = 4
    /\ [i \in 1..4 |-> arg[i].fragment] = <<F_RedCross, F_RedCrossUrl, F_UNHCR, F_RedCrossUrl>>
    /\ [i \in 1..4 |-> arg[i].sep] = <<",", "\n", ",", "\n">>
    /\ ret = <<F_RedCross, F_RedCrossUrl, F_UNHCR>>


(***************************************************************************)
(* extract_location called on its own.  The function's body is its         *)
(* docstring (lines 345-349), so a call runs off the end and returns None. *)
(* A Python value is given here with its type, to tell None from "".       *)
(***************************************************************************)
PyNone == [type |-> "NoneType", value |-> <<>>]

PyStrValue(s) == [type |-> "str", value |-> s]

\* extract_location(text)
extract_location(text) == PyNone

InitLocate ==
    /\ AtRest
    /\ pc = "locate_call"
    /\ arg \in InferTexts
    /\ ret = <<>>

LocateCall ==
    /\ pc = "locate_call"
    /\ ret' = extract_location(arg)
    /\ pc' = "locate_done"
    /\ UNCHANGED <<atRest, arg>>

SpecLocate == InitLocate /\ [][LocateCall]_vars

(***************************************************************************)
(* C13: extract_location returns the empty string for every text without   *)
(* a location pattern (the texts here name no place), and the location of  *)
(* an assembled record is the article's location when that is not empty    *)
(* and "Unknown" otherwise.                                                *)
(***************************************************************************)
C13_LocationOrUnknown ==
    /\ pc = "locate_done" => ret = PyStrValue(<<>>)
    /\ Assembled =>
          event_record.location =
              IF article.location # <<>> THEN article.location ELSE Unknown


(***************************************************************************)
(* tweet_crisis called on its own with the credentials set and a client    *)
(* that accepts the status: what update_status is given for an event       *)
(***************************************************************************)
\* "Floods displaced thousands. "
A_Sentence == <<"F", "l", "o", "o", "d", "s", " ", "d", "i", "s", "p", "l", "a", "c", "e", "d", " ", "t", "h", "o", "u", "s", "a", "n", "d", "s", ".", " ">>

RECURSIVE Repeat(_, _)
Repeat(s, n) == IF n = 0 THEN <<>> ELSE s \o Repeat(s, n - 1)

\* a summary of one line and 250 characters, within max_tokens=100 of line 475
A_LongSummary == SubSeq(Repeat(A_Sentence, 9), 1, 250)

\* lines 764-770: the status posted for the event, none when composing it raises
tweet_crisis(event) ==
    IF TweetTextRaises(event) THEN [posted |-> FALSE, text |-> <<>>]
    ELSE [posted |-> TRUE, text |-> PyPrefix(TweetText(event), TweetLimit)]

TweetEvents ==
    [location : {Jakarta, Unknown},
     people_affected : {0, 1200, 3000},
     event_type : {War, Famine, Flood, Earthquake, Drought, Other},
     summary : {<<>>, PyStrip(A_Summary), A_LongSummary},
     donation_links : {DefaultDonations, <<F_RedCross, F_RedCrossUrl, F_UNHCR>>, <<>>}]

InitTweet ==
    /\ AtRest
    /\ pc = "tweet_call"
    /\ arg \in TweetEvents
    /\ ret = <<>>

TweetCall ==
    /\ pc = "tweet_call"
    /\ ret' = tweet_crisis(arg)
    /\ pc' = "tweet_done"
    /\ UNCHANGED <<atRest, arg>>

SpecTweet == InitTweet /\ [][TweetCall]_vars

(***************************************************************************)
(* C14: every status given to update_status has at most 280 characters and *)
(* holds the event's location, its people_affected, its event_type, the    *)
(* first line of its summary and its first donation link.                  *)
(***************************************************************************)
C14_TweetHoldsTheFacts ==
    pc = "tweet_done" /\ ret.posted =>
        /\ Len(ret.text) <= 280
        /\ PyIn(arg.location, ret.text)
        /\ PyIn(PyStr(arg.people_affected), ret.text)
        /\ PyIn(arg.event_type, ret.text)
        /\ PyIn(PySplit(arg.summary, "\n")[1], ret.text)
        /\ PyIn(arg.donation_links[1], ret.text)


(***************************************************************************)
(* C15 as claimed: main returns "OK" whatever happened to the batch, also  *)
(* when no article was collected.                                          *)
(***************************************************************************)
C15_AlwaysPlainOK ==
    pc = "done" => result = "OK"

(***************************************************************************)
(* C15, amended: main returns "OK" for every batch with an article in it,  *)
(* whether the articles were written, filtered as not a crisis or raised,  *)
(* and "OK - No articles to process" when no article was collected.        *)
(***************************************************************************)
C15_StatusIgnoresOutcomes ==
    /\ pc = "done" =>
          result = IF all_articles = <<>> THEN "OK - No articles to process" ELSE "OK"
    /\ pc # "done" => result = ""

\* both articles of the batch raised, nothing was counted, and main returns "OK"
C15_Witness ==
    /\ pc = "done"
    /\ Len(all_articles) = 2
    /\ error_log = {1, 2}
    /\ processed_count = 0
    /\ result = "OK"


\* the calls process_event makes for a CRISIS article, in the order of lines 644-713
StepOrder ==
    <<"classify_crisis", "estimate_impact", "generate_summary", "geocode",
      "infer_event_type", "suggest_donations", "write_to_sheet", "save_to_gcs",
      "tweet_crisis">>

IsPrefix(s, t) == Len(s) <= Len(t) /\ s = SubSeq(t, 1, Len(s))

\* the order of the steps, as far as a single state shows it
StepsInOrder ==
    /\ \A i \in 1..pos :
          /\ IsPrefix(NamesOf(i), StepOrder)
          /\ Finished(i) /\ classified[i] = "CRISIS" /\ i \notin error_log
                => NamesOf(i) = StepOrder
    /\ pc # "done" /\ pos > 0 /\ Count(pos, "suggest_donations") = 1 =>
          donation_arg = infer_event_type(full_text)
    /\ pos > 0 /\ geo_query # <<>> =>
          geo_query = ResolveLocation(article.location)
    /\ event_id # <<>> =>
          /\ Count(pos, "suggest_donations") = 1
          /\ timestamp # <<>>
          /\ donation_arg = event_type
    /\ pc \in {"gcs", "tweet"} => event_id # <<>> /\ event_record.event_id = event_id

(***************************************************************************)
(* C16: for an article classified CRISIS process_event calls, in this      *)
(* order, classify_crisis, estimate_impact, generate_summary, geocode (on  *)
(* the resolved location), infer_event_type, suggest_donations (with the   *)
(* label infer_event_type returned), then draws event_id and timestamp,    *)
(* then write_to_sheet, save_to_gcs and tweet_crisis last; a step that     *)
(* changes a sink finds all six enrichment calls of the article made.      *)
(***************************************************************************)
C16_StepsInFixedOrder ==
    /\ []StepsInOrder
    /\ [][sheet' # sheet \/ gcs' # gcs \/ tweets' # tweets =>
              /\ IsPrefix(SubSeq(StepOrder, 1, 6), NamesOf(pos))
              /\ event_id # <<>>
              /\ (sheet' # sheet => gcs' = gcs /\ Count(pos, "save_to_gcs") = 0)
              /\ (gcs' # gcs => tweets' = tweets /\ Count(pos, "tweet_crisis") = 0)]_vars

\* one article went through all nine calls and reached the three sinks
C16_Witness ==
    /\ pc = "loop"
    /\ pos = 1
    /\ NamesOf(1) = StepOrder
    /\ donation_arg = War
    /\ geo_query = Jakarta
    /\ Len(sheet) = 1
    /\ Cardinality(gcs) = 1
    /\ tweets = 1


(***************************************************************************)
(* C17                                                                     *)
(***************************************************************************)
SourceOrder == <<"NewsAPI", "RSS", "Twitter", "Reddit">>

\* the articles are taken one at a time: the calls are grouped by position,
\* in increasing order, none for a position the loop has not reached
OneAtATime ==
    /\ \A k \in 1..Len(calls) : calls[k][1] \in 1..pos
    /\ \A k \in 1..(Len(calls) - 1) : calls[k][1] <= calls[k + 1][1]
    /\ \A i \in 1..pos :
          Count(i, "classify_crisis") = (IF i = pos /\ pc = "classify" THEN 0 ELSE 1)
    /\ pos <= Len(all_articles)
    /\ pc = "done" /\ all_articles # <<>> => pos = Len(all_articles)

\* C17: all_articles is what NewsAPI, RSS, Twitter and Reddit returned, in that
\* order, an unconfigured adapter giving the empty list without an error; the
\* articles are then processed strictly one after the other in that order:
\* every call and sink write of an article comes before any call of the next,
\* and each article is given to process_event exactly once
C17_SourcesInOrderOneAtATime ==
    /\ [](fetched # <<>> =>
            /\ [k \in 1..Len(fetched) |-> fetched[k].source] = SourceOrder
            /\ all_articles = fetched[1].items \o fetched[2].items
                                \o fetched[3].items \o fetched[4].items
            /\ \A k \in 1..4 : ~fetched[k].configured => fetched[k].items = <<>>
            /\ error_log = {}
            /\ pc = (IF all_articles = <<>> THEN "done" ELSE "loop"))
    /\ []OneAtATime
    /\ [][/\ pc # "start" => all_articles' = all_articles
          /\ pos' \in {pos, pos + 1}
          /\ pos' = pos + 1 => pc = "loop" /\ pc' = "classify"
          /\ sheet' # sheet \/ gcs' # gcs \/ tweets' # tweets \/ calls' # calls =>
                /\ pos' = pos
                /\ \A k \in 1..Len(calls) : calls'[k] = calls[k]
                /\ \A k \in (Len(calls) + 1)..Len(calls') : calls'[k][1] = pos]_vars

C17_Witness ==
    /\ pc = "done"
    /\ Len(all_articles) = 2
    /\ all_articles[1] # all_articles[2]
    /\ NamesOf(1) = StepOrder
    /\ NamesOf(2) = StepOrder
    /\ Len(sheet) = 2


(***************************************************************************)
(* C18                                                                     *)
(***************************************************************************)
\* the negative label of the prompt (lines 364-371)
S_NOT_CRISIS == <<"N", "O", "T", " ", "C", "R", "I", "S", "I", "S">>

\* the label an answer gives, letter case and surrounding whitespace aside
LabelOf(content) == PyUpper(PyStrip(content))

\* C18: classify_crisis returns CRISIS only when the completion's answer is
\* the affirmative label; on the answer "NOT CRISIS", in any letter case and
\* with whitespace around it, it returns NOT CRISIS
C18_NegativeAnswerIsNotCrisis ==
    pc = "enrich_done" /\ arg.op = "classify_crisis" /\ arg.key /\ arg.resp.kind = "ok" =>
        /\ ret.value = "CRISIS" => LabelOf(arg.resp.content) = S_CRISIS
        /\ LabelOf(arg.resp.content) = S_NOT_CRISIS => ret.value = "NOT CRISIS"


(***************************************************************************)
(* C19                                                                     *)
(***************************************************************************)
\* where process_event stands, call by call (lines 644-715)
Stages == <<"classify", "impact", "summary", "geocode", "donations", "assemble",
            "sheet", "gcs", "tweet">>

\* the calls process_event has still to make for the article it holds
StagesLeft ==
    IF pc = "loop" THEN 0
    ELSE Len(Stages) + 1 - (CHOOSE k \in 1..Len(Stages) : Stages[k] = pc)

\* more than one article can take: its stages and the days the clock can pass
PerArticle == Len(Stages) + Len(Dates) + 1

\* a bound on the steps main has still to take
Remaining ==
    IF pc = "done" THEN 0
    ELSE IF pc = "start" THEN (MaxItems + 1) * PerArticle
    ELSE (Len(all_articles) - pos) * PerArticle + StagesLeft + (Len(Dates) - today) + 1

\* how process_event ended for the article at position i
Skipped(i) ==
    /\ classified[i] # "CRISIS"
    /\ i \notin error_log
    /\ NamesOf(i) = <<"classify_crisis">>

Dispatched(i) ==
    /\ classified[i] = "CRISIS"
    /\ i \notin error_log
    /\ NamesOf(i) = StepOrder

Errored(i) == i \in error_log

Outcomes(i) ==
    {o \in {"skipped", "dispatched", "errored"} :
        \/ o = "skipped" /\ Skipped(i)
        \/ o = "dispatched" /\ Dispatched(i)
        \/ o = "errored" /\ Errored(i)}

\* the articles whose process_event has returned without raising
ReturnedSoFar == {i \in 1..pos : Finished(i) /\ i \notin error_log}

LoopIsBounded ==
    /\ \A i \in 1..pos : \A name \in {StepOrder[k] : k \in 1..Len(StepOrder)} :
          Count(i, name) <= 1
    /\ \A i \in 1..pos : Finished(i) => Cardinality(Outcomes(i)) = 1
    /\ processed_count <= pos
    /\ processed_count = Cardinality(ReturnedSoFar)
    /\ pc = "done" /\ all_articles # <<>> =>
          /\ pos = Len(all_articles)
          /\ processed_count = Len(all_articles) - Cardinality(error_log)

\* C19: every call returning or raising, a batch terminates: each collected
\* article reaches exactly one outcome (skipped as not a crisis, dispatched or
\* errored), no call is repeated for an article and main returns; in the loop
\* processed_count never exceeds the articles already taken and at the end it
\* is the number of articles whose process_event returned without raising
\* Termination is stated on finite runs: every call returning or raising,
\* main can take a step wherever it has not returned, and every step brings it
\* nearer to the return by a measure that cannot fall below zero.
C19_BatchTerminates ==
    /\ [](pc = "done" \/ ENABLED Next)
    /\ [](pc = "done" => result # "")
    /\ [](Remaining >= 0)
    /\ [][Remaining' < Remaining]_vars
    /\ []LoopIsBounded

C19_Witness ==
    /\ pc = "done"
    /\ Len(all_articles) = 2
    /\ Skipped(1)
    /\ Errored(2)
    /\ processed_count = 1


(***************************************************************************)
(* C20                                                                     *)
(***************************************************************************)
\* process_event is past its call of geocode (line 661)
PastGeocode == pc \in {"donations", "assemble", "sheet", "gcs", "tweet"}

\* C20: the location process_event passes to geocode is never empty, so the
\* lookup is skipped only when OPENCAGE_API_KEY is absent: an article without
\* a location is looked up as "Unknown", and its record carries the
\* coordinates the collaborator returned for that query, not a forced (0, 0)
C20_UnknownIsLookedUp ==
    /\ [](PastGeocode =>
            /\ location # <<>>
            /\ location = (IF article.location = <<>> THEN Unknown ELSE article.location)
            /\ (geo_query = <<>>) = ~env.OPENCAGE_API_KEY
            /\ env.OPENCAGE_API_KEY => geo_query = location
            /\ ~env.OPENCAGE_API_KEY => coords = <<0, 0>>)
    /\ [][pc = "geocode" /\ pc' = "donations" /\ env.OPENCAGE_API_KEY =>
            \E resp \in GeoAnswers : coords' = GeocodeLookup(resp)]_vars
    /\ [](Assembled =>
            /\ event_record.location = location
            /\ event_record.lat = coords[1]
            /\ event_record.lng = coords[2])

C20_Witness ==
    /\ pc = "gcs"
    /\ article.location = <<>>
    /\ geo_query = Unknown
    /\ event_record.location = Unknown
    /\ event_record.lat = -62
    /\ event_record.lng = 1068

=============================================================================
